---------------------------- MODULE Spec2Model ----------------------------
(***************************************************************************)
(* Model of bempp.api.operators.potential.laplace (the four Laplace        *)
(* potential operator factories) and of bempp.api.utils.helpers            *)
(* (align_array, assign_parameters, promote_to_double_precision).          *)
(*                                                                         *)
(* Python objects are modelled with their identity: a parameter object is  *)
(* a name ("p1", ...) with a content, a descriptor and an options list     *)
(* carry the number of the allocation that made them, an array is an       *)
(* index into the heap `arrays`.  Python's None is the string "None"; an   *)
(* argument the caller leaves out is the string "Omitted", replaced by the *)
(* default of the def line.                                                *)
(***************************************************************************)
EXTENDS Naturals, Sequences, FiniteSets

VARIABLES
    DEFAULT_PRECISION,   \* bempp.api.DEFAULT_PRECISION
    GLOBAL_PARAMETERS,   \* bempp.api.GLOBAL_PARAMETERS (an object name)
    nAlloc,              \* number of objects allocated by the factories so far
    objects,             \* identities of the descriptors and option lists built so far
    nCalls,              \* number of calls made so far
    lastCall,            \* the most recent call, its arguments and its outcome
    prevCall,            \* the call before it
    arrays,              \* heap of numpy arrays
    lastArr              \* the most recent helper call on an array

vars == <<DEFAULT_PRECISION, GLOBAL_PARAMETERS, nAlloc, objects, nCalls,
          lastCall, prevCall, arrays, lastArr>>

factoryVars == <<DEFAULT_PRECISION, GLOBAL_PARAMETERS, nAlloc, objects,
                 nCalls, lastCall, prevCall>>

arrayVars == <<arrays, lastArr>>

-----------------------------------------------------------------------------
(* Bounds *)

MaxCalls == 2

MaxArrays == 2

-----------------------------------------------------------------------------
(* Values *)

None == "None"

Omitted == "Omitted"

\* parameter objects: identity is the name, Content is what == compares,
\* Truthy is what bool() gives
ParamObjects == {"p1", "p2", "p3", "p4"}

Content(p) ==
    CASE p = "p1" -> "defaults"
      [] p = "p2" -> "defaults"
      [] p = "p3" -> "custom"
      [] p = "p4" -> "empty"
      [] OTHER -> "none"

Truthy(p) == p # None /\ Content(p) # "empty"

PrecisionTags == {"single", "double", "half"}

ValidPrecisions == {"single", "double"}

\* the (space, points, device_interface, assembler) of the calls made: every
\* value of each argument occurs, with both values of every other argument
\* somewhere in the set
CallSites ==
    {[space |-> "space1", points |-> "points1", device_interface |-> None, assembler |-> Omitted],
     [space |-> "space2", points |-> "points2", device_interface |-> "opencl", assembler |-> "fmm"],
     [space |-> "space1", points |-> "points2", device_interface |-> "opencl", assembler |-> Omitted],
     [space |-> "space2", points |-> "points1", device_interface |-> None, assembler |-> "fmm"]}

FactoryNames == {"single_layer", "single_layer_gradient", "double_layer",
                 "double_layer_gradient"}

\* the parameters arguments given to the factories
FactoryParameters == {None, "p3", "p4"}

\* the objects the application installs as GLOBAL_PARAMETERS
GlobalChoices == {"p1", "p3"}

NoCall == [op |-> "none"]

-----------------------------------------------------------------------------
(* External collaborators *)

\* a default of the def line: parameters=None, assembler="dense", ...
ArgOrDefault(a, d) == IF a = Omitted THEN d ELSE a

\* the list display []: a new list object each time it is evaluated
NewList(id) == [id |-> id, items |-> << >>]

\* bempp.api.operators.OperatorDescriptor, positional fields; `id` is the
\* identity of the record built
OperatorDescriptor(id, identifier, options, kernel_type, assembly_type, precision, is_complex, singular_part, kernel_dimension) ==
    [id |-> id,
     identifier |-> identifier,
     options |-> options,
     kernel_type |-> kernel_type,
     assembly_type |-> assembly_type,
     precision |-> precision,
     is_complex |-> is_complex,
     singular_part |-> singular_part,
     kernel_dimension |-> kernel_dimension]

\* bempp.api.assembly.assembler.PotentialAssembler, positional arguments:
\* what the assembler is handed
PotentialAssembler(space, points, operator_descriptor, device_interface, assembler, parameters) ==
    [space |-> space,
     points |-> points,
     operator_descriptor |-> operator_descriptor,
     device_interface |-> device_interface,
     assembler |-> assembler,
     parameters |-> parameters]

\* bempp.api.assembly.potential_operator.PotentialOperator wraps the assembler
PotentialOperator(assembler) == assembler

-----------------------------------------------------------------------------
(* laplace.py: the four factories.  Each reads DEFAULT_PRECISION, builds    *)
(* its option list and its descriptor as the next two objects after the     *)
(* nAlloc already allocated, and returns what the assembler was handed.     *)

\* single_layer with one module-level options list shared by all calls
single_layer_SharedOptions(space, points, parameters, assembler, device_interface, precision) ==
    LET asm == ArgOrDefault(assembler, "dense")
        prec == IF precision = None THEN DEFAULT_PRECISION ELSE precision
        operator_descriptor ==
            OperatorDescriptor(nAlloc + 2,
                "laplace_single_layer_potential",
                NewList(0),
                "laplace_single_layer",
                "default_scalar",
                prec,
                FALSE,
                None,
                1)
    IN  PotentialOperator(
            PotentialAssembler(space, points, operator_descriptor,
                               device_interface, asm, parameters))

single_layer(space, points, parameters, assembler, device_interface, precision) ==
    LET asm == ArgOrDefault(assembler, "dense")
        prec == IF precision = None THEN DEFAULT_PRECISION ELSE precision
        operator_descriptor ==
            OperatorDescriptor(nAlloc + 2,
                "laplace_single_layer_potential",
                NewList(nAlloc + 1),
                "laplace_single_layer",
                "default_scalar",
                prec,
                FALSE,
                None,
                1)
    IN  PotentialOperator(
            PotentialAssembler(space, points, operator_descriptor,
                               device_interface, asm, parameters))

\* single_layer_gradient with the kernel dimension of the scalar operator
single_layer_gradient_ScalarDimension(space, points, parameters, assembler, device_interface, precision) ==
    LET asm == ArgOrDefault(assembler, "dense")
        prec == IF precision = None THEN DEFAULT_PRECISION ELSE precision
        operator_descriptor ==
            OperatorDescriptor(nAlloc + 2,
                "laplace_single_layer_potential_gradient",
                NewList(nAlloc + 1),
                "laplace_single_layer_gradient",
                "laplace_single_layer_gradient",
                prec,
                FALSE,
                None,
                1)
    IN  PotentialOperator(
            PotentialAssembler(space, points, operator_descriptor,
                               device_interface, asm, parameters))

\* single_layer_gradient without the resolution of precision=None
single_layer_gradient_NoDefault(space, points, parameters, assembler, device_interface, precision) ==
    LET asm == ArgOrDefault(assembler, "dense")
        prec == precision
        operator_descriptor ==
            OperatorDescriptor(nAlloc + 2,
                "laplace_single_layer_potential_gradient",
                NewList(nAlloc + 1),
                "laplace_single_layer_gradient",
                "laplace_single_layer_gradient",
                prec,
                FALSE,
                None,
                3)
    IN  PotentialOperator(
            PotentialAssembler(space, points, operator_descriptor,
                               device_interface, asm, parameters))

single_layer_gradient(space, points, parameters, assembler, device_interface, precision) ==
    LET asm == ArgOrDefault(assembler, "dense")
        prec == IF precision = None THEN DEFAULT_PRECISION ELSE precision
        operator_descriptor ==
            OperatorDescriptor(nAlloc + 2,
                "laplace_single_layer_potential_gradient",
                NewList(nAlloc + 1),
                "laplace_single_layer_gradient",
                "laplace_single_layer_gradient",
                prec,
                FALSE,
                None,
                3)
    IN  PotentialOperator(
            PotentialAssembler(space, points, operator_descriptor,
                               device_interface, asm, parameters))

\* double_layer with the kernel type left from single_layer
double_layer_CopiedKernel(space, points, parameters, assembler, device_interface, precision) ==
    LET asm == ArgOrDefault(assembler, "dense")
        prec == IF precision = None THEN DEFAULT_PRECISION ELSE precision
        operator_descriptor ==
            OperatorDescriptor(nAlloc + 2,
                "laplace_double_layer_potential",
                NewList(nAlloc + 1),
                "laplace_single_layer",
                "default_scalar",
                prec,
                FALSE,
                None,
                1)
    IN  PotentialOperator(
            PotentialAssembler(space, points, operator_descriptor,
                               device_interface, asm, parameters))

\* double_layer with space and points exchanged in the assembler call
double_layer_SwappedArguments(space, points, parameters, assembler, device_interface, precision) ==
    LET asm == ArgOrDefault(assembler, "dense")
        prec == IF precision = None THEN DEFAULT_PRECISION ELSE precision
        operator_descriptor ==
            OperatorDescriptor(nAlloc + 2,
                "laplace_double_layer_potential",
                NewList(nAlloc + 1),
                "laplace_double_layer",
                "default_scalar",
                prec,
                FALSE,
                None,
                1)
    IN  PotentialOperator(
            PotentialAssembler(points, space, operator_descriptor,
                               device_interface, asm, parameters))

double_layer(space, points, parameters, assembler, device_interface, precision) ==
    LET asm == ArgOrDefault(assembler, "dense")
        prec == IF precision = None THEN DEFAULT_PRECISION ELSE precision
        operator_descriptor ==
            OperatorDescriptor(nAlloc + 2,
                "laplace_double_layer_potential",
                NewList(nAlloc + 1),
                "laplace_double_layer",
                "default_scalar",
                prec,
                FALSE,
                None,
                1)
    IN  PotentialOperator(
            PotentialAssembler(space, points, operator_descriptor,
                               device_interface, asm, parameters))

\* double_layer_gradient with "double" in place of DEFAULT_PRECISION
double_layer_gradient_FixedDefault(space, points, parameters, assembler, device_interface, precision) ==
    LET asm == ArgOrDefault(assembler, "dense")
        prec == IF precision = None THEN "double" ELSE precision
        operator_descriptor ==
            OperatorDescriptor(nAlloc + 2,
                "laplace_double_layer_potential_gradient",
                NewList(nAlloc + 1),
                "laplace_double_layer_gradient",
                "laplace_double_layer_gradient",
                prec,
                FALSE,
                None,
                3)
    IN  PotentialOperator(
            PotentialAssembler(space, points, operator_descriptor,
                               device_interface, asm, parameters))

double_layer_gradient(space, points, parameters, assembler, device_interface, precision) ==
    LET asm == ArgOrDefault(assembler, "dense")
        prec == IF precision = None THEN DEFAULT_PRECISION ELSE precision
        operator_descriptor ==
            OperatorDescriptor(nAlloc + 2,
                "laplace_double_layer_potential_gradient",
                NewList(nAlloc + 1),
                "laplace_double_layer_gradient",
                "laplace_double_layer_gradient",
                prec,
                FALSE,
                None,
                3)
    IN  PotentialOperator(
            PotentialAssembler(space, points, operator_descriptor,
                               device_interface, asm, parameters))

\* the call fn(space, points, parameters, assembler, device_interface, precision)
Factory(fn, space, points, parameters, assembler, device_interface, precision) ==
    CASE fn = "single_layer" ->
            single_layer(space, points, parameters, assembler, device_interface, precision)
      [] fn = "single_layer_gradient" ->
            single_layer_gradient(space, points, parameters, assembler, device_interface, precision)
      [] fn = "double_layer" ->
            double_layer(space, points, parameters, assembler, device_interface, precision)
      [] fn = "double_layer_gradient" ->
            double_layer_gradient(space, points, parameters, assembler, device_interface, precision)

-----------------------------------------------------------------------------
(* helpers.py: assign_parameters *)

\* assign_parameters testing truth in place of `is None`
assign_parameters_Falsy(parameters) ==
    IF ~Truthy(parameters) THEN GLOBAL_PARAMETERS ELSE parameters

assign_parameters(parameters) ==
    IF parameters = None THEN GLOBAL_PARAMETERS ELSE parameters

-----------------------------------------------------------------------------
(* numpy arrays.  An array is a record of its element type, its layout and *)
(* its flags; `exact` says that its class is ndarray itself and not a      *)
(* subclass.  Layouts: "CF" contiguous in both orders (one-dimensional),   *)
(* "C" and "F" contiguous in one order, "sCF", "sC", "sF" strided (not     *)
(* contiguous) with the axis order of the layout named.                    *)

Dtypes == {"float32", "float64", "complex64", "complex128", "int32"}

Layouts == {"CF", "C", "F", "sCF", "sC", "sF"}

ArrayStates ==
    [dtype : Dtypes, layout : Layouts, aligned : BOOLEAN, writeable : BOOLEAN,
     owndata : BOOLEAN, exact : BOOLEAN]

\* the order arguments tried: the two valid tags, lower case, empty, None
OrderTags == {"C", "F", "c", "f", "", None}

\* the target element types tried
TargetDtypes == {"float32", "float64"}

c_contiguous(a) == a.layout \in {"CF", "C"}

f_contiguous(a) == a.layout \in {"CF", "F"}

OneDimensional(a) == a.layout \in {"CF", "sCF"}

\* STRIDING_OK of numpy: the layout already meets the order asked for
StridingOk(a, order) ==
    \/ order \in {"A", "K"}
    \/ order = "C" /\ c_contiguous(a)
    \/ order = "F" /\ f_contiguous(a)

\* layout of a new array made from `a` in the given order
NewLayout(a, order) ==
    IF OneDimensional(a) THEN "CF"
    ELSE IF order = "C" THEN "C"
    ELSE IF order = "F" THEN "F"
    ELSE IF a.layout \in {"C", "sC"} THEN "C" ELSE "F"

\* a newly allocated array holding the elements of `a`
NewArrayFrom(a, dtype, order, exact) ==
    [dtype |-> dtype, layout |-> NewLayout(a, order), aligned |-> TRUE,
     writeable |-> TRUE, owndata |-> TRUE, exact |-> exact]

\* numpy.array(a, dtype=dtype, order=order, copy=False, subok=subok): the
\* array itself when nothing has to change, a base-class view of it when only
\* the class has to, a new array otherwise
np_array(a, dtype, order, subok) ==
    IF a.dtype = dtype /\ StridingOk(a, order)
    THEN IF a.exact \/ subok
         THEN [same |-> TRUE, arr |-> a]
         ELSE [same |-> FALSE, arr |-> [a EXCEPT !.owndata = FALSE, !.exact = TRUE]]
    ELSE [same |-> FALSE, arr |-> NewArrayFrom(a, dtype, order, a.exact \/ ~subok)]

\* arr.flags[prop] for the requirement letters A, O, W
Flag(a, prop) ==
    CASE prop = "A" -> a.aligned
      [] prop = "O" -> a.owndata
      [] prop = "W" -> a.writeable

\* numpy.require(heap[i], dtype, requirements=requirements): the index of the
\* array returned and the heap with it
np_require(heap, i, dtype, requirements) ==
    LET subok == "E" \notin requirements
        order == IF "F" \in requirements THEN "F"
                 ELSE IF "C" \in requirements THEN "C" ELSE "A"
        conv == np_array(heap[i], dtype, order, subok)
        props == requirements \cap {"A", "O", "W"}
    IN  IF \E prop \in props : ~Flag(conv.arr, prop)
        THEN [heap |-> Append(heap, NewArrayFrom(conv.arr, conv.arr.dtype, order, conv.arr.exact)),
              error |-> "none",
              result |-> Len(heap) + 1]
        ELSE IF conv.same
        THEN [heap |-> heap, error |-> "none", result |-> i]
        ELSE [heap |-> Append(heap, conv.arr), error |-> "none", result |-> Len(heap) + 1]

\* heap[i].astype(dtype, copy=False): order "K", the subclass kept
astype(heap, i, dtype) ==
    IF heap[i].dtype = dtype
    THEN [heap |-> heap, error |-> "none", result |-> i]
    ELSE [heap |-> Append(heap, NewArrayFrom(heap[i], dtype, "K", heap[i].exact)),
          error |-> "none",
          result |-> Len(heap) + 1]

-----------------------------------------------------------------------------
(* helpers.py: align_array and promote_to_double_precision, on the array   *)
(* heap[i]                                                                 *)

\* align_array comparing the order tag without regard to case
align_array_AnyCase(heap, i, dtype, order) ==
    IF order \in {"F", "f"}
    THEN np_require(heap, i, dtype, {"A", "F", "O", "E"})
    ELSE IF order \in {"C", "c"}
    THEN np_require(heap, i, dtype, {"A", "C", "O", "E"})
    ELSE [heap |-> heap, error |-> "ValueError", result |-> 0]

\* align_array with the C requirements in both branches
align_array_WrongOrder(heap, i, dtype, order) ==
    IF order = "F"
    THEN np_require(heap, i, dtype, {"A", "C", "O", "E"})
    ELSE IF order = "C"
    THEN np_require(heap, i, dtype, {"A", "C", "O", "E"})
    ELSE [heap |-> heap, error |-> "ValueError", result |-> 0]

align_array(heap, i, dtype, order) ==
    IF order = "F"
    THEN np_require(heap, i, dtype, {"A", "F", "O", "E"})
    ELSE IF order = "C"
    THEN np_require(heap, i, dtype, {"A", "C", "O", "E"})
    ELSE [heap |-> heap, error |-> "ValueError", result |-> 0]

\* promote_to_double_precision with the real target in the complex branch
promote_ComplexToReal(heap, i) ==
    IF heap[i].dtype = "float32"
    THEN astype(heap, i, "float64")
    ELSE IF heap[i].dtype = "complex64"
    THEN astype(heap, i, "float64")
    ELSE [heap |-> heap, error |-> "none", result |-> i]

promote_to_double_precision(heap, i) ==
    IF heap[i].dtype = "float32"
    THEN astype(heap, i, "float64")
    ELSE IF heap[i].dtype = "complex64"
    THEN astype(heap, i, "complex128")
    ELSE [heap |-> heap, error |-> "none", result |-> i]

-----------------------------------------------------------------------------
(* State machine of the descriptor layer *)

\* what is kept of a call once a later call has been made
Summary(c) ==
    IF c.op \in FactoryNames
    THEN [op |-> "factory",
          parameters |-> c.parameters,
          precision |-> c.precision,
          got_parameters |-> c.result.parameters,
          got_precision |-> c.result.operator_descriptor.precision]
    ELSE IF c.op = "assign_parameters"
    THEN [op |-> c.op,
          parameters |-> c.parameters,
          precision |-> None,
          got_parameters |-> c.result,
          got_precision |-> None]
    ELSE NoCall

Init ==
    /\ DEFAULT_PRECISION = "double"
    /\ GLOBAL_PARAMETERS = "p1"
    /\ nAlloc = 0
    /\ objects = {}
    /\ nCalls = 0
    /\ lastCall = NoCall
    /\ prevCall = NoCall
    /\ arrays = << >>
    /\ lastArr = NoCall

CallFactory(fn, space, points, parameters, assembler, device_interface, precision) ==
    /\ nCalls < MaxCalls
    /\ LET r == Factory(fn, space, points, parameters, assembler, device_interface, precision)
       IN  /\ lastCall' = [op |-> fn,
                           space |-> space,
                           points |-> points,
                           parameters |-> parameters,
                           assembler |-> assembler,
                           device_interface |-> device_interface,
                           precision |-> precision,
                           result |-> r]
           /\ objects' = objects \cup {r.operator_descriptor.id,
                                       r.operator_descriptor.options.id}
    /\ prevCall' = Summary(lastCall)
    /\ nAlloc' = nAlloc + 2
    /\ nCalls' = nCalls + 1
    /\ UNCHANGED <<DEFAULT_PRECISION, GLOBAL_PARAMETERS>>
    /\ UNCHANGED arrayVars

CallAssignParameters(parameters) ==
    /\ nCalls < MaxCalls
    /\ lastCall' = [op |-> "assign_parameters",
                    parameters |-> parameters,
                    result |-> assign_parameters(parameters)]
    /\ prevCall' = Summary(lastCall)
    /\ nCalls' = nCalls + 1
    /\ UNCHANGED <<DEFAULT_PRECISION, GLOBAL_PARAMETERS, nAlloc, objects>>
    /\ UNCHANGED arrayVars

\* the application assigns bempp.api.DEFAULT_PRECISION
SetDefaultPrecision(p) ==
    /\ p # DEFAULT_PRECISION
    /\ DEFAULT_PRECISION' = p
    /\ UNCHANGED <<GLOBAL_PARAMETERS, nAlloc, objects, nCalls, lastCall, prevCall>>
    /\ UNCHANGED arrayVars

\* the application assigns bempp.api.GLOBAL_PARAMETERS
SetGlobalParameters(p) ==
    /\ p # GLOBAL_PARAMETERS
    /\ GLOBAL_PARAMETERS' = p
    /\ UNCHANGED <<DEFAULT_PRECISION, nAlloc, objects, nCalls, lastCall, prevCall>>
    /\ UNCHANGED arrayVars

Next ==
    \/ \E fn \in FactoryNames, site \in CallSites, parameters \in FactoryParameters,
          precision \in {None} \cup PrecisionTags :
          CallFactory(fn, site.space, site.points, parameters, site.assembler,
                      site.device_interface, precision)
    \/ \E parameters \in {None} \cup ParamObjects : CallAssignParameters(parameters)
    \/ \E p \in PrecisionTags : SetDefaultPrecision(p)
    \/ \E p \in GlobalChoices : SetGlobalParameters(p)

Spec == Init /\ [][Next]_vars

-----------------------------------------------------------------------------
(* State machines of the array helpers *)

\* the caller's array
NewArray(a) ==
    /\ arrays = << >>
    /\ arrays' = <<a>>
    /\ UNCHANGED lastArr
    /\ UNCHANGED factoryVars

\* this call repeats the previous one on the previous one's result
Repeats(op, i, dtype, order) ==
    /\ lastArr.op = op
    /\ lastArr.error = "none"
    /\ lastArr.result = i
    /\ lastArr.dtype = dtype
    /\ lastArr.order = order

CallAlignArray(i, dtype, order) ==
    LET out == align_array(arrays, i, dtype, order)
    IN  /\ Len(out.heap) <= MaxArrays
        /\ arrays' = out.heap
        /\ lastArr' = [op |-> "align_array", arr |-> i, dtype |-> dtype,
                       order |-> order, error |-> out.error, result |-> out.result,
                       repeat |-> Repeats("align_array", i, dtype, order)]
        /\ UNCHANGED factoryVars

CallPromote(i) ==
    LET out == promote_to_double_precision(arrays, i)
    IN  /\ Len(out.heap) <= MaxArrays
        /\ arrays' = out.heap
        /\ lastArr' = [op |-> "promote_to_double_precision", arr |-> i,
                       dtype |-> None, order |-> None, error |-> out.error,
                       result |-> out.result,
                       repeat |-> Repeats("promote_to_double_precision", i, None, None)]
        /\ UNCHANGED factoryVars

NextArrays ==
    \/ \E a \in ArrayStates : NewArray(a)
    \/ \E i \in 1..Len(arrays), dtype \in TargetDtypes, order \in OrderTags :
          CallAlignArray(i, dtype, order)
    \/ \E i \in 1..Len(arrays) : CallPromote(i)

SpecArrays == Init /\ [][NextArrays]_vars

-----------------------------------------------------------------------------
(* Steps and shorthands used by the properties *)

IsFactoryCall(c) == c.op \in FactoryNames

IsAssignCall(c) == c.op = "assign_parameters"

\* this step is a call of one of the four factories
FactoryStep == nCalls' = nCalls + 1 /\ IsFactoryCall(lastCall')

\* this step is a call of assign_parameters
AssignStep == nCalls' = nCalls + 1 /\ IsAssignCall(lastCall')

Descriptor(c) == c.result.operator_descriptor

\* the table of section 4.3 of the specification
Table43(fn) ==
    CASE fn = "single_layer" ->
            [identifier |-> "laplace_single_layer_potential",
             kernel_type |-> "laplace_single_layer",
             assembly_type |-> "default_scalar",
             kernel_dimension |-> 1]
      [] fn = "single_layer_gradient" ->
            [identifier |-> "laplace_single_layer_potential_gradient",
             kernel_type |-> "laplace_single_layer_gradient",
             assembly_type |-> "laplace_single_layer_gradient",
             kernel_dimension |-> 3]
      [] fn = "double_layer" ->
            [identifier |-> "laplace_double_layer_potential",
             kernel_type |-> "laplace_double_layer",
             assembly_type |-> "default_scalar",
             kernel_dimension |-> 1]
      [] fn = "double_layer_gradient" ->
            [identifier |-> "laplace_double_layer_potential_gradient",
             kernel_type |-> "laplace_double_layer_gradient",
             assembly_type |-> "laplace_double_layer_gradient",
             kernel_dimension |-> 3]

\* the functions whose name contains "gradient"
GradientNames == {"single_layer_gradient", "double_layer_gradient"}

-----------------------------------------------------------------------------
C2_DimensionAndIdentifier ==
    IsFactoryCall(lastCall) =>
        LET d == Descriptor(lastCall)
        IN  /\ d.kernel_dimension \in {1, 3}
            /\ d.kernel_dimension = 3 <=> d.assembly_type # "default_scalar"
            /\ d.kernel_dimension = 3 <=> lastCall.op \in GradientNames
            /\ \A g \in FactoryNames \ {lastCall.op} :
                 \A site \in CallSites :
                    Factory(g, site.space, site.points, lastCall.parameters,
                            site.assembler, site.device_interface,
                            lastCall.precision).operator_descriptor.identifier
                        # d.identifier

C2_Witness ==
    /\ lastCall.op = "single_layer_gradient"
    /\ Descriptor(lastCall).kernel_dimension = 3
    /\ Descriptor(lastCall).assembly_type = "laplace_single_layer_gradient"
    /\ prevCall.op = "factory"
    /\ nCalls = 2

(* C3: the descriptor's precision is the caller's precision argument when  *)
(* that is not None, and the value DEFAULT_PRECISION holds at the moment   *)
(* of the call when it is None.                                            *)
C3_PrecisionResolved ==
    [][FactoryStep =>
         Descriptor(lastCall').precision =
             IF lastCall'.precision = None THEN DEFAULT_PRECISION
                                           ELSE lastCall'.precision]_vars

\* two calls with precision=None, DEFAULT_PRECISION changed in between
C3_Witness ==
    /\ prevCall.op = "factory"
    /\ prevCall.precision = None
    /\ prevCall.got_precision = "double"
    /\ IsFactoryCall(lastCall)
    /\ lastCall.precision = None
    /\ Descriptor(lastCall).precision = "single"

(* C4 as claimed: the precision field of every descriptor built is one of  *)
(* "single" or "double", whatever the caller passes and whatever           *)
(* DEFAULT_PRECISION holds.                                                *)
C4_PrecisionAlwaysValid ==
    IsFactoryCall(lastCall) => Descriptor(lastCall).precision \in ValidPrecisions

(* C4 as amended: the precision field is one of "single" or "double"       *)
(* whenever the caller's precision argument is one of them, or is None     *)
(* while DEFAULT_PRECISION holds one of them at the moment of the call.    *)
C4_PrecisionValidWhenInputValid ==
    [][(/\ FactoryStep
        /\ \/ lastCall'.precision \in ValidPrecisions
           \/ lastCall'.precision = None /\ DEFAULT_PRECISION \in ValidPrecisions)
       => Descriptor(lastCall').precision \in ValidPrecisions]_vars

C4_Witness ==
    /\ IsFactoryCall(lastCall)
    /\ lastCall.precision = None
    /\ DEFAULT_PRECISION = "single"
    /\ Descriptor(lastCall).precision = "single"
    /\ prevCall.op = "factory"
    /\ prevCall.precision = "half"
    /\ prevCall.got_precision = "half"

\* the part of the hand-over the claim and its amendment share
HandedOwnDescriptor ==
    /\ lastCall'.result.space = lastCall'.space
    /\ lastCall'.result.points = lastCall'.points
    /\ lastCall'.result.device_interface = lastCall'.device_interface
    /\ lastCall'.result.assembler =
           IF lastCall'.assembler = Omitted THEN "dense" ELSE lastCall'.assembler
    /\ Descriptor(lastCall').identifier = Table43(lastCall'.op).identifier
    /\ Descriptor(lastCall').id \notin objects
    /\ Descriptor(lastCall').id \in objects'

(* C5 as claimed: the assembler is handed the factory's own new            *)
(* descriptor, the caller's space, points, device_interface and assembler  *)
(* selector ("dense" when none is given), and the resolved parameters: the *)
(* caller's object when non-null, GLOBAL_PARAMETERS otherwise, never null. *)
C5_HandsResolvedParameters ==
    [][FactoryStep =>
         /\ HandedOwnDescriptor
         /\ lastCall'.result.parameters =
                IF lastCall'.parameters = None THEN GLOBAL_PARAMETERS
                                               ELSE lastCall'.parameters
         /\ lastCall'.result.parameters # None]_vars

(* C5 as amended: the assembler is handed the factory's own new            *)
(* descriptor, the caller's space, points, device_interface and assembler  *)
(* selector ("dense" when none is given), and the caller's parameters      *)
(* argument unchanged: None when the caller passed none.                   *)
C5_HandsCallerParameters ==
    [][FactoryStep =>
         /\ HandedOwnDescriptor
         /\ lastCall'.result.parameters = lastCall'.parameters]_vars

C5_Witness ==
    /\ IsFactoryCall(lastCall)
    /\ lastCall.parameters = None
    /\ lastCall.result.parameters = None
    /\ lastCall.assembler = Omitted
    /\ lastCall.result.assembler = "dense"
    /\ lastCall.result.space = "space1"
    /\ lastCall.result.points = "points2"
    /\ lastCall.result.device_interface = "opencl"
    /\ prevCall.op = "factory"
    /\ prevCall.got_parameters = "p3"

(* C6: assign_parameters(None) returns the object GLOBAL_PARAMETERS holds  *)
(* at the time of the call; for every other argument, falsy ones and ones  *)
(* equal in content to the default included, it returns the very object    *)
(* it was given.                                                           *)
C6_AssignParameters ==
    [][AssignStep =>
         lastCall'.result =
             IF lastCall'.parameters = None THEN GLOBAL_PARAMETERS
                                            ELSE lastCall'.parameters]_vars

\* a falsy argument, then one equal in content to the default but another object
C6_Witness ==
    /\ prevCall.op = "assign_parameters"
    /\ prevCall.parameters = "p4"
    /\ ~Truthy(prevCall.parameters)
    /\ prevCall.got_parameters = "p4"
    /\ IsAssignCall(lastCall)
    /\ lastCall.parameters = "p2"
    /\ GLOBAL_PARAMETERS = "p1"
    /\ Content(lastCall.parameters) = Content(GLOBAL_PARAMETERS)
    /\ lastCall.result = "p2"

\* what C10 and its amendment share: the calls leave the globals alone, each
\* factory call builds a new descriptor with a new empty options list, an
\* omitted precision gets DEFAULT_PRECISION, and assign_parameters(None)
\* gets GLOBAL_PARAMETERS
CallFrame ==
    /\ DEFAULT_PRECISION' = DEFAULT_PRECISION
    /\ GLOBAL_PARAMETERS' = GLOBAL_PARAMETERS
    /\ FactoryStep =>
         /\ Descriptor(lastCall').id \notin objects
         /\ Descriptor(lastCall').options.id \notin objects
         /\ Descriptor(lastCall').id # Descriptor(lastCall').options.id
         /\ Descriptor(lastCall').options.items = << >>
         /\ {Descriptor(lastCall').id, Descriptor(lastCall').options.id} \subseteq objects'
         /\ lastCall'.precision = None =>
                Descriptor(lastCall').precision = DEFAULT_PRECISION
         /\ lastCall'.precision # None =>
                Descriptor(lastCall').precision = lastCall'.precision
         /\ lastCall'.parameters # None =>
                lastCall'.result.parameters = lastCall'.parameters
    /\ AssignStep =>
         lastCall'.result = IF lastCall'.parameters = None THEN GLOBAL_PARAMETERS
                                                           ELSE lastCall'.parameters

(* C10 as claimed: calls of the factories and of assign_parameters leave   *)
(* DEFAULT_PRECISION and GLOBAL_PARAMETERS unchanged, each factory call    *)
(* builds its own new descriptor and its own new empty options list, and   *)
(* an override holds for its call only: a later call that omits the        *)
(* argument gets the process-wide default.                                 *)
C10_OverrideThenDefault ==
    [][(FactoryStep \/ AssignStep) =>
         /\ CallFrame
         /\ (FactoryStep /\ lastCall'.parameters = None) =>
                lastCall'.result.parameters = GLOBAL_PARAMETERS]_vars

(* C10 as amended: the same, except that a factory call that omits         *)
(* parameters hands None to the assembler, neither the process-wide        *)
(* default nor the earlier override.                                       *)
C10_OverrideThisCallOnly ==
    [][(FactoryStep \/ AssignStep) =>
         /\ CallFrame
         /\ (FactoryStep /\ lastCall'.parameters = None) =>
                lastCall'.result.parameters = None]_vars

\* overrides of precision and parameters in one call, both omitted in the next
C10_Witness ==
    /\ prevCall.op = "factory"
    /\ prevCall.precision = "single"
    /\ prevCall.got_precision = "single"
    /\ prevCall.parameters = "p3"
    /\ prevCall.got_parameters = "p3"
    /\ IsFactoryCall(lastCall)
    /\ lastCall.precision = None
    /\ lastCall.parameters = None
    /\ Descriptor(lastCall).precision = "double"
    /\ lastCall.result.parameters = None
    /\ DEFAULT_PRECISION = "double"
    /\ GLOBAL_PARAMETERS = "p1"
    /\ Cardinality(objects) = 4

-----------------------------------------------------------------------------
(* Properties of the array helpers *)

IsAlignCall(c) == c.op = "align_array"

IsPromoteCall(c) == c.op = "promote_to_double_precision"

\* this step is a call of align_array
AlignStep == lastArr' # lastArr /\ IsAlignCall(lastArr')

Contiguous(a, order) ==
    IF order = "F" THEN f_contiguous(a) ELSE c_contiguous(a)

(* C7: align_array raises ValueError for every order other than exactly    *)
(* "C" or "F"; nothing is converted then, no array is produced and the     *)
(* arrays are as they were; for "C" and "F" it does not raise.             *)
C7_OrderChecked ==
    [][AlignStep =>
         IF lastArr'.order \in {"C", "F"}
         THEN lastArr'.error = "none" /\ lastArr'.result \in 1..Len(arrays')
         ELSE /\ lastArr'.error = "ValueError"
              /\ lastArr'.result = 0
              /\ arrays' = arrays]_vars

C7_Witness ==
    /\ IsAlignCall(lastArr)
    /\ lastArr.order = "c"
    /\ lastArr.error = "ValueError"
    /\ Len(arrays) = 2
    /\ lastArr.arr = 2

(* C8 as claimed: for order "C" or "F" the array returned has element type *)
(* dtype, is contiguous in the order asked for, aligned, writable and owns *)
(* its data; an input that already is all of this is returned itself, and *)
(* a second application to the result returns that result.                 *)
C8_AlignedWritable ==
    (IsAlignCall(lastArr) /\ lastArr.error = "none") =>
        LET a == arrays[lastArr.arr]
            r == arrays[lastArr.result]
        IN  /\ r.dtype = lastArr.dtype
            /\ Contiguous(r, lastArr.order)
            /\ r.aligned
            /\ r.writeable
            /\ r.owndata
            /\ (/\ a.dtype = lastArr.dtype
                /\ Contiguous(a, lastArr.order)
                /\ a.aligned
                /\ a.writeable
                /\ a.owndata) => lastArr.result = lastArr.arr
            /\ lastArr.repeat => lastArr.result = lastArr.arr

(* C8 as amended: for order "C" or "F" the array returned is a base-class  *)
(* array that has element type dtype, is contiguous in the order asked     *)
(* for, aligned and owns its data; it is writable unless it is a read-only *)
(* input returned as it is; the input is returned itself exactly when it   *)
(* is a base-class array that already has the type, the layout, the        *)
(* alignment and its own data, and a second application to the result      *)
(* returns that result.                                                    *)
C8_AlignedOwned ==
    (IsAlignCall(lastArr) /\ lastArr.error = "none") =>
        LET a == arrays[lastArr.arr]
            r == arrays[lastArr.result]
        IN  /\ r.dtype = lastArr.dtype
            /\ Contiguous(r, lastArr.order)
            /\ r.aligned
            /\ r.owndata
            /\ r.exact
            /\ r.writeable <=> (lastArr.result # lastArr.arr \/ a.writeable)
            /\ (/\ a.exact
                /\ a.dtype = lastArr.dtype
                /\ Contiguous(a, lastArr.order)
                /\ a.aligned
                /\ a.owndata) <=> lastArr.result = lastArr.arr
            /\ lastArr.repeat => lastArr.result = lastArr.arr

\* a strided int32 array aligned to float64 in F order, then aligned again
C8_Witness ==
    /\ IsAlignCall(lastArr)
    /\ lastArr.repeat
    /\ lastArr.order = "F"
    /\ lastArr.dtype = "float64"
    /\ Len(arrays) = 2
    /\ arrays[1].dtype = "int32"
    /\ arrays[1].layout = "sC"
    /\ lastArr.arr = 2
    /\ lastArr.result = 2
    /\ arrays[2].layout = "F"

(* C9: promote_to_double_precision returns a float64 array for a float32   *)
(* input, a complex128 array for a complex64 input and the input itself    *)
(* for every other element type; the result is never float32 or complex64, *)
(* and a second application to the result returns that result.             *)
C9_Promotion ==
    IsPromoteCall(lastArr) =>
        LET a == arrays[lastArr.arr]
            r == arrays[lastArr.result]
        IN  /\ lastArr.error = "none"
            /\ a.dtype = "float32" => r.dtype = "float64"
            /\ a.dtype = "complex64" => r.dtype = "complex128"
            /\ a.dtype \notin {"float32", "complex64"} => lastArr.result = lastArr.arr
            /\ r.dtype \notin {"float32", "complex64"}
            /\ lastArr.repeat => lastArr.result = lastArr.arr

\* a complex64 array promoted, and the result promoted again
C9_Witness ==
    /\ IsPromoteCall(lastArr)
    /\ lastArr.repeat
    /\ Len(arrays) = 2
    /\ arrays[1].dtype = "complex64"
    /\ lastArr.arr = 2
    /\ lastArr.result = 2
    /\ arrays[2].dtype = "complex128"

=============================================================================
